---------------------------- MODULE Spec2Model ----------------------------
(***************************************************************************)
(* A model of chipmoon/Stock_Summary: the trade-extraction engine          *)
(* (src/core/parser.py), the Trade record (src/models/trade_model.py) and  *)
(* the portfolio aggregation of SheetsLedger.update_portfolio_summary      *)
(* (src/integrations/sheets_ledger.py).                                    *)
(*                                                                         *)
(* Text is modelled as a sequence of tokens (a character, or a word the    *)
(* code searches for).  Python floats are modelled as exact rationals      *)
(* [n, d] in lowest terms: binary rounding error is outside the model.     *)
(***************************************************************************)
EXTENDS Integers, Sequences, FiniteSets, TLC

\* ------------------------------------------------------------------------
\* State
\* ------------------------------------------------------------------------

\* one call of TradeParser.parse
VARIABLES
    build,        \* which Trade base class the process imported
    now,          \* datetime.now() during the call
    subject,      \* the message subject, a token sequence
    body,         \* the message body: its table rows and its key-value matches
    pc,           \* position of the parse call
    ran,          \* the extractors entered so far
    report_date,  \* _parse_fubon_report: <<y, m, d>> of the subject
    row_i,        \* _parse_fubon_report: index of the next <tr>
    trades,       \* _parse_fubon_report: the list being built
    result,       \* the list parse returned
    escaped       \* the exception that propagated out of parse ("" if none)

parserVars == <<build, now, subject, body, pc, ran, report_date, row_i,
                trades, result, escaped>>

\* one call of Trade(**data)
VARIABLES
    tr_build,   \* the build the Trade class comes from
    tr_data,    \* the keyword arguments of the call
    tr_pc,      \* "call" before Trade(**data), "done" after
    tr_out      \* what the call produced: [ok, exc, trade]

tradeVars == <<tr_build, tr_data, tr_pc, tr_out>>

\* one run of SheetsLedger.update_portfolio_summary
VARIABLES
    headers,            \* rows[0] of the ledger sheet
    hist,               \* the data rows the fold has consumed, in order
    portfolio,          \* code -> the running aggregate of that symbol
    total_realized_pl,  \* the process-wide realized P/L
    summary_rows,       \* the rows of the dashboard table
    agg_pc              \* "fold", "done", "empty" (no data row) or "failed"

aggVars == <<headers, hist, portfolio, total_realized_pl, summary_rows, agg_pc>>

\* successive calls of TradeParser.parse on one message
VARIABLES
    calls,        \* how many calls have been started
    returned      \* the earlier calls: [subject, body, result] of each

callVars == <<calls, returned>>

\* one SheetsLedger object and the worksheet behind it
VARIABLES
    sheet_head,          \* row 1 of the worksheet: "none", "header" or "data"
    sheet_ids,           \* the Order ID cell (column 8) of each data row, in order
    sheet_open,          \* self.sheet is set
    existing_order_ids,  \* self.existing_order_ids
    led_last             \* the last call on the object and how it ended

ledgerVars == <<sheet_head, sheet_ids, sheet_open, existing_order_ids, led_last>>

\* one run of main()
VARIABLES
    dry_env,           \* the DRY_RUN environment variable: <<>> when unset
    dry_run,           \* the local dry_run
    main_pc,           \* where main() is
    inbox,             \* the messages fetch_new_emails has yet to yield
    pending,           \* the trades of the current message not yet handled
    emails_processed,  \* the local emails_processed
    trades_recorded,   \* the local trades_recorded
    ledger_calls,      \* the SheetsLedger methods main has called, in order
    rows_at_start      \* the data rows of the worksheet when main started

mainVars == <<dry_env, dry_run, main_pc, inbox, pending, emails_processed,
              trades_recorded, ledger_calls, rows_at_start>>

vars == <<parserVars, callVars, tradeVars, aggVars, ledgerVars, mainVars>>

\* ------------------------------------------------------------------------
\* Rational arithmetic (the model of Python float arithmetic)
\* ------------------------------------------------------------------------

Abs(x) == IF x < 0 THEN -x ELSE x

RECURSIVE GCD(_, _)
GCD(a, b) == IF b = 0 THEN a ELSE GCD(b, a % b)

\* The rational n/d (d # 0) in lowest terms with a positive denominator.
Rat(n, d) ==
    LET g == GCD(Abs(n), Abs(d))
        s == IF d < 0 THEN -1 ELSE 1
    IN  [n |-> s * (n \div g), d |-> s * (d \div g)]

Zero == [n |-> 0, d |-> 1]

RAdd(x, y) == Rat(x.n * y.d + y.n * x.d, x.d * y.d)
RSub(x, y) == Rat(x.n * y.d - y.n * x.d, x.d * y.d)
RMul(x, y) == Rat(x.n * y.n, x.d * y.d)
\* x / y, only used under the code's guard (the divisor is > 0)
RDiv(x, y) == Rat(x.n * y.d, x.d * y.n)
RGt(x, y) == x.n * y.d > y.n * x.d

\* ------------------------------------------------------------------------
\* Text helpers
\* ------------------------------------------------------------------------

Digits == <<"0", "1", "2", "3", "4", "5", "6", "7", "8", "9">>
IsDigit(c) == \E i \in 1..10 : Digits[i] = c
DigitVal(c) == (CHOOSE i \in 1..10 : Digits[i] = c) - 1

RECURSIVE Remove(_, _)
\* str.replace(c, ""): every occurrence of token c removed
Remove(s, c) ==
    IF s = <<>> THEN <<>>
    ELSE IF Head(s) = c THEN Remove(Tail(s), c)
    ELSE <<Head(s)>> \o Remove(Tail(s), c)

RECURSIVE LStrip(_)
LStrip(s) == IF s # <<>> /\ Head(s) = " " THEN LStrip(Tail(s)) ELSE s

RECURSIVE RStrip(_)
RStrip(s) ==
    IF s # <<>> /\ s[Len(s)] = " " THEN RStrip(SubSeq(s, 1, Len(s) - 1)) ELSE s

\* str.strip()
Strip(s) == RStrip(LStrip(s))

\* kw in text
Contains(s, kw) == \E i \in 1..Len(s) : s[i] = kw

RECURSIVE Pow10(_)
Pow10(k) == IF k = 0 THEN 1 ELSE 10 * Pow10(k - 1)

RECURSIVE DigitsValue(_)
\* the integer written by a sequence of digit tokens
DigitsValue(s) ==
    IF s = <<>> THEN 0
    ELSE 10 * DigitsValue(SubSeq(s, 1, Len(s) - 1)) + DigitVal(s[Len(s)])

\* float(text): surrounding blanks dropped, then digits with at most one
\* decimal point and at least one digit; anything else raises ValueError
\* (ok = FALSE).
ParseFloat(text) ==
    LET s == Strip(text)
        dots == {i \in 1..Len(s) : s[i] = "."}
        wellFormed ==
            /\ \A i \in 1..Len(s) : IsDigit(s[i]) \/ s[i] = "."
            /\ Cardinality(dots) <= 1
            /\ \E i \in 1..Len(s) : IsDigit(s[i])
    IN  IF ~wellFormed THEN [ok |-> FALSE, v |-> Zero]
        ELSE LET dot == IF dots = {} THEN Len(s) + 1 ELSE CHOOSE i \in dots : TRUE
                 frac == Len(s) - dot
                 ds == Remove(s, ".")
             IN  [ok |-> TRUE,
                  v |-> Rat(DigitsValue(ds), Pow10(IF frac < 0 THEN 0 ELSE frac))]

\* ------------------------------------------------------------------------
\* Trade (src/models/trade_model.py)
\* ------------------------------------------------------------------------

\* An Optional value: <<>> is None, <<v>> is v.
None == <<>>
Some(v) == <<v>>

\* The two builds of the module: pydantic importable, or the basic fallback.
Builds == {"pydantic", "fallback"}

\* Round2 cutting the digits after the hundredths
Round2_Truncate(x) == Rat((100 * x.n) \div x.d, 100)

\* round(x, 2) for x >= 0: to the nearest hundredth, ties to even.
Round2(x) ==
    LET num == 100 * x.n
        fl == num \div x.d
        rem == num - fl * x.d
        up == \/ 2 * rem > x.d
              \/ (2 * rem = x.d /\ fl % 2 = 1)
    IN  Rat(IF up THEN fl + 1 ELSE fl, 100)

\* Field(..., gt=0) on quantity and price: enforced by pydantic only; the
\* fallback Field swallows the constraint in **kwargs.
FieldsValid(b, data) ==
    b = "pydantic" => (RGt(data.quantity, Zero) /\ RGt(data.price, Zero))

\* Trade.__init__: total_amount is computed when it is None after the base
\* initialiser has run.
TotalAmount(data) ==
    IF data.total_amount = None
    THEN Round2(RMul(data.quantity, data.price))
    ELSE data.total_amount[1]

\* TradeNew with the date always taken from the clock
TradeNew_DateNow(b, data, t) ==
    IF ~FieldsValid(b, data) THEN [ok |-> FALSE, exc |-> "ValueError", trade |-> None]
    ELSE [ok |-> TRUE, exc |-> "",
          trade |-> Some([symbol |-> data.symbol,
                          stock_name |-> data.stock_name,
                          side |-> data.side,
                          quantity |-> data.quantity,
                          price |-> data.price,
                          date |-> t,
                          total_amount |-> TotalAmount(data),
                          broker |-> IF data.broker = None THEN "Unknown"
                                     ELSE data.broker[1],
                          order_id |-> data.order_id])]

\* Trade(**data) at clock time t.  ok = FALSE is pydantic's ValidationError
\* (a ValueError).  Absent keyword arguments are None in data.
TradeNew(b, data, t) ==
    IF ~FieldsValid(b, data) THEN [ok |-> FALSE, exc |-> "ValueError", trade |-> None]
    ELSE [ok |-> TRUE, exc |-> "",
          trade |-> Some([symbol |-> data.symbol,
                          stock_name |-> data.stock_name,
                          side |-> data.side,
                          quantity |-> data.quantity,
                          price |-> data.price,
                          date |-> IF data.date = None THEN t
                                   ELSE data.date[1],
                          total_amount |-> TotalAmount(data),
                          broker |-> IF data.broker = None THEN "Unknown"
                                     ELSE data.broker[1],
                          order_id |-> data.order_id])]

\* ------------------------------------------------------------------------
\* TradeParser (src/core/parser.py)
\* ------------------------------------------------------------------------


\* the subject marker of parser.py line 28 (the broker's name in Chinese)
BrokerMarker == "FUBON"

\* The date expressions (\d{4})Y(\d{1,2})M(\d{1,2})D among the subject tokens
\* (Y, M, D stand for the year, month and day glyphs), with the groups the
\* pattern captures.
DateGroups(tok) ==
    CASE tok = "2026Y1M19D" -> <<2026, 1, 19>>
      [] tok = "2025Y12M5D" -> <<2025, 12, 5>>
      [] tok = "2026Y13M1D" -> <<2026, 13, 1>>
      [] tok = "2026Y2M30D" -> <<2026, 2, 30>>
      [] OTHER -> <<>>

IsDateExpr(tok) == DateGroups(tok) # <<>>

\* Detect as subject.startswith(BrokerMarker)
Detect_StartsWith(subj) == subj # <<>> /\ subj[1] = BrokerMarker

\* BrokerMarker in subject
Detect(subj) == Contains(subj, BrokerMarker)

\* ExtractDate falling back to a default date
ExtractDate_Default(subj) ==
    LET hits == {i \in 1..Len(subj) : IsDateExpr(subj[i])}
    IN  IF hits = {} THEN Some(<<2026, 1, 1>>)
        ELSE Some(DateGroups(subj[CHOOSE i \in hits : \A j \in hits : i <= j]))

\* re.search of the date pattern: the first match, or None.
ExtractDate(subj) ==
    LET hits == {i \in 1..Len(subj) : IsDateExpr(subj[i])}
    IN  IF hits = {} THEN None
        ELSE Some(DateGroups(subj[CHOOSE i \in hits : \A j \in hits : i <= j]))

\* The time strings of the 7th cell with the fields %H:%M:%S reads; <<>> when
\* the text does not have that shape.
TimeGroups(tok) ==
    CASE tok = "09:40:05" -> <<9, 40, 5>>
      [] tok = "10:00:00" -> <<10, 0, 0>>
      [] tok = "25:00:00" -> <<25, 0, 0>>
      [] OTHER -> <<>>

DaysIn(y, m) ==
    IF m \in {4, 6, 9, 11} THEN 30
    ELSE IF m = 2 THEN (IF y % 4 = 0 /\ (y % 100 # 0 \/ y % 400 = 0) THEN 29 ELSE 28)
    ELSE 31

\* datetime.strptime(f"{report_date} {trade_time}", "%Y-%m-%d %H:%M:%S"):
\* ok = FALSE is ValueError.
Strptime(d, cell) ==
    LET g == IF Len(cell) = 1 THEN TimeGroups(cell[1]) ELSE <<>>
    IN  IF /\ g # <<>>
           /\ d[1] >= 1 /\ d[2] \in 1..12 /\ d[3] >= 1 /\ d[3] <= DaysIn(d[1], d[2])
           /\ g[1] \in 0..23 /\ g[2] \in 0..59 /\ g[3] \in 0..61
        THEN [ok |-> TRUE, ts |-> d \o g]
        ELSE [ok |-> FALSE, ts |-> <<>>]

\* the header label, the disclaimer and the notice of parser.py line 60
RowMarkers == {"HDR_STOCK_NAME", "NOTE_ABOVE_DATA", "NOTE_IMPORTANT"}

\* LooksNumeric accepting whatever float() accepts
LooksNumeric_AsFloat(s) == ParseFloat(s).ok

\* re.match(r"^\d+\.?\d*$", s)
LooksNumeric(s) ==
    /\ s # <<>>
    /\ IsDigit(s[1])
    /\ \A i \in 1..Len(s) : IsDigit(s[i]) \/ s[i] = "."
    /\ Cardinality({i \in 1..Len(s) : s[i] = "."}) <= 1

RECURSIVE LeadingDigits(_)
\* group 1 of re.match(r"(\d+)(.*)", s)
LeadingDigits(s) ==
    IF s # <<>> /\ IsDigit(Head(s)) THEN <<Head(s)>> \o LeadingDigits(Tail(s))
    ELSE <<>>

\* the "sell" glyph of parser.py line 90 and sheets_ledger.py line 274
SellGlyph == "MAI4"
\* the "buy" glyph of sheets_ledger.py line 271
BuyGlyph == "MAI3"

\* RowCatches without ValueError
RowCatches_IndexOnly(exc) == exc \in {"IndexError"}

\* except (ValueError, IndexError) around one row
RowCatches(exc) == exc \in {"ValueError", "IndexError"}

\* ReportCatches for ValueError alone
ReportCatches_ValueOnly(exc) == exc = "ValueError"

\* except Exception around the whole report
ReportCatches(exc) == TRUE

\* RegexCatches for TypeError alone
RegexCatches_TypeOnly(exc) == exc = "TypeError"

\* except Exception in _parse_regex
RegexCatches(exc) == TRUE

\* The body of the row's try block: [ok, exc, trade].
RowTrade(b, d, t, texts) ==
    LET symbol_full == texts[1]
        code == LeadingDigits(symbol_full)
        symbol == IF code # <<>> THEN code ELSE symbol_full
        stock_name == IF code # <<>>
                      THEN Strip(SubSeq(symbol_full, Len(code) + 1, Len(symbol_full)))
                      ELSE <<>>
        side == IF Contains(texts[2], SellGlyph) THEN "SELL" ELSE "BUY"
        qty == ParseFloat(Remove(texts[3], ","))
        price == ParseFloat(Remove(texts[4], ","))
        full_ts == Strptime(d, texts[7])
    IN  IF ~qty.ok \/ ~price.ok \/ ~full_ts.ok
        THEN [ok |-> FALSE, exc |-> "ValueError", trade |-> None]
        ELSE TradeNew(b, [symbol |-> symbol,
                          stock_name |-> Some(stock_name),
                          side |-> side,
                          quantity |-> qty.v,
                          price |-> price.v,
                          date |-> Some(full_ts.ts),
                          total_amount |-> None,
                          broker |-> Some("Fubon Securities"),
                          order_id |-> Some(texts[6])], t)

\* One iteration of `for row in rows`: "skip" (continue before the try),
\* "emit", "caught" (the row's except clause) or "propagate".
RowOutcome(b, d, t, row) ==
    LET texts == [i \in 1..Len(row) |-> Strip(row[i])]
    IN  IF Len(row) < 7 THEN [kind |-> "skip", exc |-> "", trade |-> None]
        ELSE IF \E kw \in RowMarkers : Contains(texts[1], kw)
        THEN [kind |-> "skip", exc |-> "", trade |-> None]
        ELSE IF \/ ~LooksNumeric(Remove(texts[3], ","))
                \/ ~LooksNumeric(Remove(texts[4], ","))
        THEN [kind |-> "skip", exc |-> "", trade |-> None]
        ELSE LET r == RowTrade(b, d, t, texts)
             IN  IF r.ok THEN [kind |-> "emit", exc |-> "", trade |-> r.trade]
                 ELSE IF RowCatches(r.exc)
                 THEN [kind |-> "caught", exc |-> r.exc, trade |-> None]
                 ELSE [kind |-> "propagate", exc |-> r.exc, trade |-> None]

UpperTok(c) ==
    CASE c = "a" -> "A"
      [] c = "b" -> "B"
      [] c \in {"Buy", "buy", "BUY"} -> "BUY"
      [] c \in {"Sell", "sell", "SELL"} -> "SELL"
      [] OTHER -> c

\* str.upper()
Upper(s) == [i \in 1..Len(s) |-> UpperTok(s[i])]

RequiredKeys == {"symbol", "side", "quantity", "price"}

\* _parse_regex(text): [ret, exc]; ret is the Optional[Trade] returned.  kv[k]
\* is the Optional group(1) of REGEX_PATTERNS[k] in text.
ParseRegex(b, t, text) ==
    IF text.fault = "NoneBody"
    THEN (IF RegexCatches("TypeError") THEN [ret |-> None, exc |-> ""]
          ELSE [ret |-> None, exc |-> "TypeError"])
    ELSE LET extracted == [k \in DOMAIN text.kv |->
                             IF text.kv[k] = None THEN None
                             ELSE Some(Strip(text.kv[k][1]))]
         IN  IF \E k \in RequiredKeys : extracted[k] = None
             THEN [ret |-> None, exc |-> ""]
             ELSE LET qty == ParseFloat(Remove(extracted["quantity"][1], ","))
                      price == ParseFloat(Remove(extracted["price"][1], ","))
                      r == IF ~qty.ok \/ ~price.ok
                           THEN [ok |-> FALSE, exc |-> "ValueError", trade |-> None]
                           ELSE TradeNew(b, [symbol |-> Upper(extracted["symbol"][1]),
                                             stock_name |-> None,
                                             side |-> Upper(extracted["side"][1])[1],
                                             quantity |-> qty.v,
                                             price |-> price.v,
                                             date |-> None,
                                             total_amount |-> None,
                                             broker |-> None,
                                             order_id |-> extracted["order_id"]], t)
                  IN  IF r.ok THEN [ret |-> r.trade, exc |-> ""]
                      ELSE IF RegexCatches(r.exc) THEN [ret |-> None, exc |-> ""]
                      ELSE [ret |-> None, exc |-> r.exc]

\* what _parse_fubon_report returns when exc leaves its try block: [ret, exc]
ReportFailure(exc) ==
    IF ReportCatches(exc) THEN [ret |-> <<>>, exc |-> ""] ELSE [ret |-> <<>>, exc |-> exc]

RECURSIVE ReportRows(_, _, _, _, _, _)
\* the row loop of lines 52-114 from row i on, trades holding the records
\* built so far
ReportRows(b, d, t, rows, i, acc) ==
    IF i > Len(rows) THEN [ret |-> acc, exc |-> ""]
    ELSE LET o == RowOutcome(b, d, t, rows[i])
         IN  IF o.kind = "propagate" THEN ReportFailure(o.exc)
             ELSE ReportRows(b, d, t, rows, i + 1,
                             IF o.kind = "emit" THEN Append(acc, o.trade[1]) ELSE acc)

\* _parse_fubon_report(subject, html_body) as one call: [ret, exc]
ParseFubonReport(b, t, subj, html_body) ==
    LET m == ExtractDate(subj)
    IN  IF m = None THEN [ret |-> <<>>, exc |-> ""]
        ELSE IF html_body.fault = "NoneBody" THEN ReportFailure("TypeError")
        ELSE IF html_body.fault = "RejectedMarkup" THEN ReportFailure("ParserRejectedMarkup")
        ELSE ReportRows(b, m[1], t, html_body.rows, 1, <<>>)

\* parse(subject, body) as one call: [ret, exc]
ParseCall(b, t, subj, bod) ==
    IF Detect(subj) THEN ParseFubonReport(b, t, subj, bod)
    ELSE LET r == ParseRegex(b, t, bod)
         IN  [ret |-> r.ret, exc |-> r.exc]

\* ---- the messages the parser is run on --------------------------------

\* longest table (in <tr> rows) of a message body
MaxRows == 3

Subjects ==
    { <<>>,
      <<"Trade Confirmation">>,
      <<"Trade Confirmation", "2026Y1M19D">>,
      <<BrokerMarker>>,
      <<BrokerMarker, "report">>,
      <<BrokerMarker, "2026Y1M19D">>,
      <<BrokerMarker, "2026Y13M1D">>,
      <<"2025Y12M5D", BrokerMarker, "2026Y2M30D">> }

\* the row of the report in spec section 8
RowSell ==
    << <<"2", "3", "4", "4", "HuaBangDian">>, <<"cash", SellGlyph>>, <<"5", "0">>,
       <<"1", "1", "7", ".", "0", "0">>, <<"X">>, <<"ABC123">>, <<"09:40:05">> >>
RowBuy ==
    << <<" ", "2", "3", "3", "0", " ", "TSMC">>, <<"cash", BuyGlyph>>,
       <<"1", ",", "0", "0", "0">>, <<"5", ".", "5">>, <<"X">>, <<"DEF456">>,
       <<"10:00:00">> >>
RowShort ==
    << <<"2", "3", "4", "4", "HuaBangDian">>, <<"cash", SellGlyph>>, <<"5", "0">> >>
RowNotice ==
    << <<"NOTE_ABOVE_DATA", "2", "0", "2", "6">>, <<>>, <<"1">>, <<"2">>, <<>>, <<>>,
       <<"10:00:00">> >>
RowNonNumeric ==
    << <<"2", "3", "4", "4", "HuaBangDian">>, <<"cash", SellGlyph>>, <<".", "5">>,
       <<"1", "1", "7">>, <<"X">>, <<"GHI789">>, <<"09:40:05">> >>
RowBadTime ==
    << <<"2", "3", "4", "4", "HuaBangDian">>, <<"cash", BuyGlyph>>, <<"5", "0">>,
       <<"1", "1", "7">>, <<"X">>, <<"JKL012">>, <<"25:00:00">> >>
RowZeroQty ==
    << <<"2", "3", "3", "0", "TSMC">>, <<"cash", BuyGlyph>>, <<"0">>,
       <<"5", ".", "5">>, <<"X">>, <<"MNO345">>, <<"10:00:00">> >>

FubonRows == {RowSell, RowBuy, RowShort, RowNotice, RowNonNumeric, RowBadTime, RowZeroQty}

RECURSIVE SeqsUpTo(_, _)
\* the sequences over S of length at most n
SeqsUpTo(S, n) ==
    IF n = 0 THEN {<<>>}
    ELSE LET shorter == SeqsUpTo(S, n - 1)
         IN  shorter \cup {Append(q, x) : q \in {r \in shorter : Len(r) = n - 1}, x \in S}

KV(sym, side, qty, price, oid) ==
    [symbol |-> sym, side |-> side, quantity |-> qty, price |-> price, order_id |-> oid]

KVNone == KV(None, None, None, None, None)
KVFull == KV(Some(<<"a", "B", "1">>), Some(<<"Buy">>), Some(<<"1", ",", "0", "0", "0">>),
             Some(<<"1", "0", ".", "5">>), Some(<<"REF-1">>))

\* what [\d,.]+ can capture: numbers, a zero, and texts float() rejects
NumberTexts ==
    { <<"1", ",", "0", "0", "0">>, <<"1", "0", ".", "5">>, <<".", "5">>, <<"0">>,
      <<"0", ".", "0">>, <<"1", ".", "2", ".", "3">>, <<",">>, <<".">> }

KVs ==
    {KVNone}
    \cup {KV(Some(<<"a", "B", "1">>), Some(<<sd>>), Some(q), Some(pr), oid) :
            sd \in {"Buy", "SELL"}, q \in NumberTexts, pr \in NumberTexts,
            oid \in {None, Some(<<"REF-1">>)}}
    \cup {[KVFull EXCEPT ![k] = None] : k \in RequiredKeys}
    \cup {[KVFull EXCEPT !["symbol"] = None, !["price"] = None]}

Bodies ==
    {[fault |-> "", rows |-> rs, kv |-> kv] :
        rs \in SeqsUpTo(FubonRows, MaxRows), kv \in {KVNone, KVFull}}
    \cup {[fault |-> "", rows |-> <<>>, kv |-> kv] : kv \in KVs}
    \cup {[fault |-> f, rows |-> <<>>, kv |-> kv] :
            f \in {"NoneBody", "RejectedMarkup"}, kv \in {KVNone}}
    \cup {[fault |-> "RejectedMarkup", rows |-> <<RowSell>>, kv |-> KVFull]}

Clock == <<2026, 11, 1, 12, 0, 0>>

ParserInit ==
    /\ build \in Builds
    /\ now = Clock
    /\ subject \in Subjects
    /\ body \in Bodies
    /\ pc = "start"
    /\ ran = {}
    /\ report_date = <<>>
    /\ row_i = 0
    /\ trades = <<>>
    /\ result = <<>>
    /\ escaped = ""

\* ---- TradeParser.parse, step by step ----------------------------------

\* parse, line 28: the dispatch on the subject
Parse ==
    /\ pc = "start"
    /\ IF Detect(subject)
       THEN pc' = "fubon_date" /\ ran' = ran \cup {"fubon"}
       ELSE pc' = "regex" /\ ran' = ran \cup {"regex"}
    /\ UNCHANGED <<build, now, subject, body, report_date, row_i, trades, result, escaped>>
    /\ UNCHANGED <<callVars, tradeVars, aggVars, ledgerVars, mainVars>>

\* parse, lines 32-33: the regex extractor and the list built from it
Regex ==
    /\ pc = "regex"
    /\ LET r == ParseRegex(build, now, body)
       IN  IF r.exc = ""
           THEN /\ result' = r.ret
                /\ pc' = "done"
                /\ escaped' = escaped
           ELSE /\ result' = result
                /\ pc' = "raised"
                /\ escaped' = r.exc
    /\ UNCHANGED <<build, now, subject, body, ran, report_date, row_i, trades>>
    /\ UNCHANGED <<callVars, tradeVars, aggVars, ledgerVars, mainVars>>

\* _parse_fubon_report, lines 41-46: the report date, or return []
FubonDate ==
    /\ pc = "fubon_date"
    /\ LET m == ExtractDate(subject)
       IN  IF m = None
           THEN /\ result' = <<>>
                /\ pc' = "done"
                /\ report_date' = report_date
           ELSE /\ report_date' = m[1]
                /\ pc' = "fubon_soup"
                /\ result' = result
    /\ UNCHANGED <<build, now, subject, body, ran, row_i, trades, escaped>>
    /\ UNCHANGED <<callVars, tradeVars, aggVars, ledgerVars, mainVars>>

\* what leaves the report's try block with exception exc
ReportFails(exc) ==
    IF ReportCatches(exc)
    THEN /\ result' = <<>>
         /\ pc' = "done"
         /\ escaped' = escaped
    ELSE /\ result' = result
         /\ pc' = "raised"
         /\ escaped' = exc

\* _parse_fubon_report, lines 49-50: BeautifulSoup(html_body) and find_all("tr")
FubonSoup ==
    /\ pc = "fubon_soup"
    /\ IF body.fault = "NoneBody"
       THEN ReportFails("TypeError") /\ row_i' = row_i
       ELSE IF body.fault = "RejectedMarkup"
       THEN ReportFails("ParserRejectedMarkup") /\ row_i' = row_i
       ELSE /\ pc' = "fubon_rows"
            /\ row_i' = 1
            /\ UNCHANGED <<result, escaped>>
    /\ UNCHANGED <<build, now, subject, body, ran, report_date, trades>>
    /\ UNCHANGED <<callVars, tradeVars, aggVars, ledgerVars, mainVars>>

\* _parse_fubon_report, lines 52-111: one iteration of the row loop
FubonRow ==
    /\ pc = "fubon_rows"
    /\ row_i <= Len(body.rows)
    /\ LET o == RowOutcome(build, report_date, now, body.rows[row_i])
       IN  IF o.kind = "propagate"
           THEN ReportFails(o.exc) /\ UNCHANGED <<row_i, trades>>
           ELSE /\ trades' = IF o.kind = "emit" THEN Append(trades, o.trade[1]) ELSE trades
                /\ row_i' = row_i + 1
                /\ UNCHANGED <<pc, result, escaped>>
    /\ UNCHANGED <<build, now, subject, body, ran, report_date>>
    /\ UNCHANGED <<callVars, tradeVars, aggVars, ledgerVars, mainVars>>

\* _parse_fubon_report, lines 113-114: return trades
FubonReturn ==
    /\ pc = "fubon_rows"
    /\ row_i > Len(body.rows)
    /\ result' = trades
    /\ pc' = "done"
    /\ UNCHANGED <<build, now, subject, body, ran, report_date, row_i, trades, escaped>>
    /\ UNCHANGED <<callVars, tradeVars, aggVars, ledgerVars, mainVars>>

ParserNext == Parse \/ Regex \/ FubonDate \/ FubonSoup \/ FubonRow \/ FubonReturn

\* ---- parse called again ------------------------------------------------

\* most calls of parse in one process
MaxCalls == 3

\* a later reading of datetime.now()
ClockLater == <<2026, 11, 1, 12, 0, 1>>
Clocks == {Clock, ClockLater}

Message(subj, rows, kv) ==
    [subject |-> subj, body |-> [fault |-> "", rows |-> rows, kv |-> kv]]

\* key-value mails with and without a trade, reports with and without a date
RepeatMessages ==
    { Message(<<"Trade Confirmation">>, <<>>, KVFull),
      Message(<<"Trade Confirmation">>, <<>>, KVNone),
      Message(<<BrokerMarker, "2026Y1M19D">>, <<RowSell, RowBuy>>, KVFull),
      Message(<<BrokerMarker, "2026Y1M19D">>, <<RowBadTime, RowSell>>, KVNone),
      Message(<<BrokerMarker>>, <<RowSell>>, KVFull) }

RepeatInit ==
    /\ ParserInit
    /\ [subject |-> subject, body |-> body] \in RepeatMessages

\* the caller takes the list parse returned and calls parse on a message, at
\* a later or the same reading of the clock; nothing of the finished call is
\* kept by the class
Again ==
    /\ pc = "done"
    /\ calls < MaxCalls
    /\ calls' = calls + 1
    /\ returned' = returned \cup {[subject |-> subject, body |-> body, result |-> result]}
    /\ \E m \in RepeatMessages, t \in Clocks :
         /\ subject' = m.subject
         /\ body' = m.body
         /\ now' = t
    /\ pc' = "start"
    /\ ran' = {}
    /\ report_date' = <<>>
    /\ row_i' = 0
    /\ trades' = <<>>
    /\ result' = <<>>
    /\ escaped' = ""
    /\ UNCHANGED build
    /\ UNCHANGED <<tradeVars, aggVars, ledgerVars, mainVars>>

RepeatNext == ParserNext \/ Again

\* ------------------------------------------------------------------------
\* Trade.__init__ on its own (src/models/trade_model.py)
\* ------------------------------------------------------------------------


\* quantities are k/2 for k up to this
MaxQtyHalves == 4
\* prices are k/1000 for k up to this
MaxPriceMils == 12

TradeArgs ==
    {[symbol |-> <<"A">>, stock_name |-> None, side |-> "BUY",
      quantity |-> Rat(i, 2), price |-> Rat(j, 1000), date |-> None,
      total_amount |-> ta, broker |-> None, order_id |-> None] :
        i \in 0..MaxQtyHalves, j \in 0..MaxPriceMils,
        ta \in {None, Some(Zero), Some(Rat(7, 1))}}

NoCall == [ok |-> FALSE, exc |-> "", trade |-> None]

TradeInit ==
    /\ tr_build \in Builds
    /\ tr_data \in TradeArgs
    /\ tr_pc = "call"
    /\ tr_out = NoCall

\* Trade(**tr_data)
Construct ==
    /\ tr_pc = "call"
    /\ tr_out' = TradeNew(tr_build, tr_data, Clock)
    /\ tr_pc' = "done"
    /\ UNCHANGED <<tr_build, tr_data>>
    /\ UNCHANGED <<parserVars, callVars, aggVars, ledgerVars, mainVars>>

TradeNext == Construct

\* ------------------------------------------------------------------------
\* SheetsLedger.update_portfolio_summary (src/integrations/sheets_ledger.py)
\* ------------------------------------------------------------------------


\* the header row _ensure_headers writes
HeaderStd ==
    <<"Trade Time", "Stock Code", "Stock Name", "Action", "Shares", "Unit Price",
      "Total Amount", "Order ID", "Broker">>
\* recognised synonyms, the name column last
HeaderAlt == <<"Date", "Symbol", "Side", "Quantity", "Price", "Amount", "Name">>
\* nothing recognised: every column falls back to its default
HeaderUnknown == <<"c0", "c1", "c2", "c3", "c4", "c5", "c6">>

Headers == {HeaderStd, HeaderAlt, HeaderUnknown}

\* find_col(possible_names, default_idx): a 0-based column
FindCol(hdr, possible_names, default_idx) ==
    LET found == {k \in 1..Len(possible_names) : Contains(hdr, possible_names[k])}
    IN  IF found = {} THEN default_idx
        ELSE LET name == possible_names[CHOOSE k \in found : \A j \in found : k <= j]
                 at == {i \in 1..Len(hdr) : hdr[i] = name}
             IN  (CHOOSE i \in at : \A j \in at : i <= j) - 1

IdxCode(hdr) == FindCol(hdr, <<"Stock Code", "Stock Symbol", "Symbol">>, 1)
IdxName(hdr) == FindCol(hdr, <<"Stock Name", "Name">>, 2)
IdxAction(hdr) == FindCol(hdr, <<"Action", "Side">>, 3)
IdxQty(hdr) == FindCol(hdr, <<"Shares", "Quantity">>, 4)
IdxAmt(hdr) == FindCol(hdr, <<"Total Amount", "Amount">>, 6)

Max2(a, b) == IF a >= b THEN a ELSE b

\* len(row) <= max(idx_code, idx_action, idx_qty, idx_amt)
TooShort(hdr, row) ==
    Len(row) <= Max2(Max2(IdxCode(hdr), IdxAction(hdr)), Max2(IdxQty(hdr), IdxAmt(hdr)))

\* row[idx] of a 0-based column
Cell(row, idx) == row[idx + 1]

IsBuy(action) == Contains(action, "BUY") \/ Contains(action, BuyGlyph)
IsSell(action) == Contains(action, "SELL") \/ Contains(action, SellGlyph)

NewEntry(name) ==
    [name |-> name, buy_qty |-> Zero, buy_amt |-> Zero, sell_qty |-> Zero,
     sell_amt |-> Zero, realized_pl |-> Zero]

\* SaleProfit with the sale amount taken for the unit price
SaleProfit_AmountAsPrice(d, qty, amt) ==
    LET avg_buy_before == IF RGt(d.buy_qty, Zero) THEN RDiv(d.buy_amt, d.buy_qty) ELSE Zero
    IN  RMul(RSub(amt, avg_buy_before), qty)

\* SaleProfit with the average buy cost left out
SaleProfit_NoCost(d, qty, amt) ==
    LET current_sale_price == IF RGt(qty, Zero) THEN RDiv(amt, qty) ELSE Zero
    IN  RMul(current_sale_price, qty)

\* profit of one sale: lines 276-278
SaleProfit(d, qty, amt) ==
    LET avg_buy_before == IF RGt(d.buy_qty, Zero) THEN RDiv(d.buy_amt, d.buy_qty) ELSE Zero
        current_sale_price == IF RGt(qty, Zero) THEN RDiv(amt, qty) ELSE Zero
    IN  RMul(RSub(current_sale_price, avg_buy_before), qty)

\* lines 268-283: the entry of the row's code after the row
Fold(d, name, action, qty, amt) ==
    LET d1 == IF name # <<>> THEN [d EXCEPT !.name = name] ELSE d
    IN  IF IsBuy(action)
        THEN [d1 EXCEPT !.buy_qty = RAdd(@, qty), !.buy_amt = RAdd(@, amt)]
        ELSE IF IsSell(action)
        THEN [d1 EXCEPT !.realized_pl = RAdd(@, SaleProfit(d, qty, amt)),
                        !.sell_qty = RAdd(@, qty), !.sell_amt = RAdd(@, amt)]
        ELSE d1

\* lines 260-266: portfolio[code] as the row finds it, created when missing
EntryOf(pf, st) == IF st.code \in DOMAIN pf THEN pf[st.code] ELSE NewEntry(st.name)

\* lines 260-283: the portfolio after a row that was read as st
FoldRow(pf, st) ==
    [c \in DOMAIN pf \cup {st.code} |->
        IF c = st.code
        THEN Fold(EntryOf(pf, st), st.name, st.action, st.qty, st.amt)
        ELSE pf[c]]

\* lines 274-280: what the row adds to total_realized_pl
RowProfit(pf, st) ==
    IF ~IsBuy(st.action) /\ IsSell(st.action)
    THEN SaleProfit(EntryOf(pf, st), st.qty, st.amt)
    ELSE Zero

\* lines 249-283 for one row: "skip" (continue), "fold", or "raise" (an
\* exception that leaves the loop for the handler of line 429)
RowStep(hdr, row) ==
    IF TooShort(hdr, row) THEN [kind |-> "skip"]
    ELSE IF IdxName(hdr) + 1 > Len(row) THEN [kind |-> "raise"]
    ELSE LET code == Strip(Cell(row, IdxCode(hdr)))
             name == Strip(Cell(row, IdxName(hdr)))
             action == Upper(Strip(Cell(row, IdxAction(hdr))))
             qty == ParseFloat(Remove(Cell(row, IdxQty(hdr)), ","))
             amt == ParseFloat(Remove(Cell(row, IdxAmt(hdr)), ","))
         IN  IF ~qty.ok \/ ~amt.ok THEN [kind |-> "skip"]
             ELSE [kind |-> "fold", code |-> code, name |-> name, action |-> action,
                   qty |-> qty.v, amt |-> amt.v]

\* Shown for open holdings only
Shown_HoldingsOnly(net_qty, realized_pl) == RGt(net_qty, Zero)

\* the condition of line 307 for showing a symbol on the dashboard
Shown(net_qty, realized_pl) == RGt(net_qty, Zero) \/ realized_pl # Zero

\* the condition of lines 289-290 for fetching a symbol's price
PriceFetched(d) == RSub(d.buy_qty, d.sell_qty) # Zero \/ d.realized_pl # Zero

\* the characters of the model's codes, in their str order
CodeChars == <<" ", "0", "1", "2", "3", "4", "5", "6", "7", "8", "9", "A", "B">>
CharRank(c) == CHOOSE i \in 1..Len(CodeChars) : CodeChars[i] = c

RECURSIVE CodeLess(_, _)
\* a < b on str
CodeLess(a, b) ==
    IF b = <<>> THEN FALSE
    ELSE IF a = <<>> THEN TRUE
    ELSE IF Head(a) = Head(b) THEN CodeLess(Tail(a), Tail(b))
    ELSE CharRank(Head(a)) < CharRank(Head(b))

RECURSIVE Sorted(_)
\* sorted(codes) as a sequence
Sorted(S) ==
    IF S = {} THEN <<>>
    ELSE LET least == CHOOSE c \in S : \A o \in S \ {c} : CodeLess(c, o)
         IN  <<least>> \o Sorted(S \ {least})

SummaryRow(code, d, live_price) ==
    [code |-> code, name |-> d.name,
     net_qty |-> RSub(d.buy_qty, d.sell_qty),
     avg_buy |-> IF RGt(d.buy_qty, Zero) THEN RDiv(d.buy_amt, d.buy_qty) ELSE Zero,
     live_price |-> live_price,
     realized_pl |-> d.realized_pl]

RECURSIVE SummaryOf(_, _, _)
\* lines 299-320 over the sorted codes
SummaryOf(codes, pf, prices) ==
    IF codes = <<>> THEN <<>>
    ELSE LET code == Head(codes)
             d == pf[code]
             live == IF code \in DOMAIN prices THEN prices[code] ELSE Zero
             rest == SummaryOf(Tail(codes), pf, prices)
         IN  IF Shown(RSub(d.buy_qty, d.sell_qty), d.realized_pl)
             THEN <<SummaryRow(code, d, live)>> \o rest
             ELSE rest

\* ---- the ledger sheets the aggregation is run on ----------------------

\* most data rows of a ledger sheet
MaxAggRows == 3

AggField(code, name, action, qty, amt) ==
    [code |-> code, name |-> name, action |-> action, qty |-> qty, amt |-> amt]

\* what append_trade persisted (BUY 100@10, SELL 40@15, ...), and rows edited
\* by hand: another action label, a quantity that is not a number
AggFields ==
    { AggField(<<"A">>, <<"Alpha">>, <<"BUY">>, <<"1", "0", "0">>, <<"1", ",", "0", "0", "0">>),
      AggField(<<"A">>, <<>>, <<"cash", SellGlyph>>, <<"4", "0">>, <<"6", "0", "0">>),
      AggField(<<"A">>, <<"Alpha">>, <<"SELL">>, <<"1", "0", "0">>, <<"1", "0", "0", "0">>),
      AggField(<<"A">>, <<"Alpha">>, <<"SELL">>, <<"6", "0">>, <<"9", "0", "0">>),
      AggField(<<" ", "A">>, <<"Alfa">>, <<" ", "buy">>, <<"3">>, <<"1", "0">>),
      AggField(<<"B">>, <<"Beta">>, <<"cash", BuyGlyph>>, <<"4", "0">>, <<"6", "0", "0">>),
      AggField(<<"A">>, <<"Alpha">>, <<"DIVIDEND">>, <<"1">>, <<"5">>),
      AggField(<<"B">>, <<"Beta">>, <<"SELL">>, <<"0">>, <<"0">>),
      AggField(<<"A">>, <<"Alpha">>, <<"BUY">>, <<"x">>, <<"1", "0">>) }

\* the widest row of a sheet under header row hdr
RowWidth(hdr) == Len(hdr)

\* the sheet row holding fields f under header row hdr, cut to its first k cells
RowOf(hdr, f, k) ==
    [i \in 1..k |->
        IF i = IdxCode(hdr) + 1 THEN f.code
        ELSE IF i = IdxName(hdr) + 1 THEN f.name
        ELSE IF i = IdxAction(hdr) + 1 THEN f.action
        ELSE IF i = IdxQty(hdr) + 1 THEN f.qty
        ELSE IF i = IdxAmt(hdr) + 1 THEN f.amt
        ELSE <<>>]

\* a row that lost its trailing cells
ShortField == AggField(<<"A">>, <<"Alpha">>, <<"BUY">>, <<"1", "0", "0">>, <<"1", "0", "0", "0">>)

SheetRows(hdr) ==
    {RowOf(hdr, f, RowWidth(hdr)) : f \in AggFields}
    \cup {RowOf(hdr, ShortField, k) : k \in {3, 6}}

LivePrices == {Zero, Rat(12, 1)}

AggInit ==
    /\ headers \in Headers
    /\ hist = <<>>
    /\ portfolio = <<>>
    /\ total_realized_pl = Zero
    /\ summary_rows = <<>>
    /\ agg_pc = "fold"

\* lines 228-229: a sheet with no data row; nothing is written
AggEmpty ==
    /\ agg_pc = "fold"
    /\ hist = <<>>
    /\ agg_pc' = "empty"
    /\ UNCHANGED <<headers, hist, portfolio, total_realized_pl, summary_rows>>
    /\ UNCHANGED <<parserVars, callVars, tradeVars, ledgerVars, mainVars>>

\* lines 248-283: one iteration of `for row in rows[1:]`
AggRow ==
    /\ agg_pc = "fold"
    /\ Len(hist) < MaxAggRows
    /\ \E row \in SheetRows(headers) :
         LET st == RowStep(headers, row)
         IN  IF st.kind = "raise"
             THEN /\ agg_pc' = "failed"
                  /\ UNCHANGED <<hist, portfolio, total_realized_pl>>
             ELSE /\ hist' = Append(hist, row)
                  /\ agg_pc' = agg_pc
                  /\ IF st.kind = "skip"
                     THEN UNCHANGED <<portfolio, total_realized_pl>>
                     ELSE /\ portfolio' = FoldRow(portfolio, st)
                          /\ total_realized_pl' = RAdd(total_realized_pl, RowProfit(portfolio, st))
    /\ UNCHANGED <<headers, summary_rows>>
    /\ UNCHANGED <<parserVars, callVars, tradeVars, ledgerVars, mainVars>>

\* lines 285-320: the prices fetched and the dashboard rows
AggSummarise ==
    /\ agg_pc = "fold"
    /\ hist # <<>>
    /\ \E prices \in [{c \in DOMAIN portfolio : PriceFetched(portfolio[c])} -> LivePrices] :
         summary_rows' = SummaryOf(Sorted(DOMAIN portfolio), portfolio, prices)
    /\ agg_pc' = "done"
    /\ UNCHANGED <<headers, hist, portfolio, total_realized_pl>>
    /\ UNCHANGED <<parserVars, callVars, tradeVars, ledgerVars, mainVars>>

AggNext == AggEmpty \/ AggRow \/ AggSummarise

\* ------------------------------------------------------------------------
\* SheetsLedger: connect, append_trade, batch_append_trades
\* (src/integrations/sheets_ledger.py)
\* ------------------------------------------------------------------------

NoLedgerCall == [op |-> "", order_ids |-> <<>>, ret |-> None, exc |-> ""]

\* which of the worksheet calls of one method succeed (TRUE) or raise: opening
\* the worksheet, the calls of _ensure_headers, col_values, append_row /
\* append_rows
NoFault == [connect |-> TRUE, headers |-> TRUE, load |-> TRUE, write |-> TRUE]
\* every call succeeds, or one of them raises
Faults == {NoFault} \cup {[NoFault EXCEPT ![k] = FALSE] : k \in DOMAIN NoFault}

\* the cell a value of trade.order_id is written to: None leaves it empty
CellOf(order_id) == IF order_id = None THEN <<>> ELSE order_id[1]

\* bool(trade.order_id): neither None nor ""
Truthy(order_id) == order_id # None /\ order_id[1] # <<>>

\* row 1 after _ensure_headers: the header row is appended to an empty sheet
\* or inserted above a first row that is not one; a call that raises is
\* logged and leaves the sheet as it was
EnsureHeaders(head, ok) == IF ok THEN "header" ELSE head

\* sheet.col_values(8)
ColValues8(head, ids) == IF head = "header" THEN <<<<"Order ID">>>> \o ids ELSE ids

\* existing_order_ids after _load_existing_ids: the trimmed non-empty cells
\* below row 1, or the cache as it was when col_values raises
LoadExistingIds(head, ids, cache, ok) ==
    LET all_ids == ColValues8(head, ids)
    IN  IF ok
        THEN {Strip(all_ids[i]) : i \in 2..Len(all_ids)} \ {<<>>}
        ELSE cache

\* connect() on ledger led = [head, ids, open, cache]: [led, exc]
Connect(led, f) ==
    IF ~f.connect THEN [led |-> led, exc |-> "APIError"]
    ELSE LET head == EnsureHeaders(led.head, f.headers)
         IN  [led |-> [head |-> head, ids |-> led.ids, open |-> TRUE,
                       cache |-> LoadExistingIds(head, led.ids, led.cache, f.load)],
              exc |-> ""]

\* `if not self.sheet: self.connect()`
Connected(led, f) == IF led.open THEN [led |-> led, exc |-> ""] ELSE Connect(led, f)

\* the duplicate check of lines 137 and 168
IsDuplicate(cache, order_id) == Truthy(order_id) /\ Strip(order_id[1]) \in cache

\* the cache after `if trade.order_id: self.existing_order_ids.add(...)`
Remember(cache, order_id) ==
    IF Truthy(order_id) THEN cache \cup {Strip(order_id[1])} ELSE cache

\* the worksheet after rows with these Order ID cells are appended
Appended(led, cells) ==
    [led EXCEPT !.ids = @ \o cells,
                !.head = IF @ = "none" /\ cells # <<>> THEN "data" ELSE @]

\* append_trade(trade) for a trade with this order_id: [led, ret, exc]
AppendTrade(led, order_id, f) ==
    LET c == Connected(led, f)
    IN  IF c.exc # "" THEN [led |-> c.led, ret |-> None, exc |-> c.exc]
        ELSE IF IsDuplicate(c.led.cache, order_id)
        THEN [led |-> c.led, ret |-> Some(FALSE), exc |-> ""]
        ELSE IF ~f.write THEN [led |-> c.led, ret |-> None, exc |-> "APIError"]
        ELSE [led |-> [Appended(c.led, <<CellOf(order_id)>>)
                          EXCEPT !.cache = Remember(@, order_id)],
              ret |-> Some(TRUE), exc |-> ""]

RECURSIVE BatchLoop(_, _, _)
\* the loop of lines 167-183 over the order_ids of the trades: the cache and
\* rows_to_add it ends with
BatchLoop(cache, rows_to_add, order_ids) ==
    IF order_ids = <<>> THEN [cache |-> cache, rows_to_add |-> rows_to_add]
    ELSE IF IsDuplicate(cache, Head(order_ids))
    THEN BatchLoop(cache, rows_to_add, Tail(order_ids))
    ELSE BatchLoop(Remember(cache, Head(order_ids)),
                   Append(rows_to_add, CellOf(Head(order_ids))),
                   Tail(order_ids))

\* batch_append_trades(trades): [led, ret, exc]
BatchAppendTrades(led, order_ids, f) ==
    LET c == Connected(led, f)
    IN  IF c.exc # "" THEN [led |-> c.led, ret |-> None, exc |-> c.exc]
        ELSE LET loop == BatchLoop(c.led.cache, <<>>, order_ids)
                 kept == [c.led EXCEPT !.cache = loop.cache]
             IN  IF loop.rows_to_add = <<>>
                 THEN [led |-> kept, ret |-> Some(0), exc |-> ""]
                 ELSE IF ~f.write
                 THEN [led |-> kept, ret |-> None, exc |-> "APIError"]
                 ELSE [led |-> Appended(kept, loop.rows_to_add),
                       ret |-> Some(Len(loop.rows_to_add)), exc |-> ""]

\* ---- the worksheets and the trades the ledger is run on ----------------

\* most data rows of the worksheet
MaxSheetRows == 3
\* most trades of one batch
MaxBatch == 2

\* Order ID cells found in a worksheet: empty, an id, an id typed with a blank
SheetCells == {<<>>, <<"X1">>, <<" ", "X2">>}

\* trade.order_id: None, "", "X1", "X2 "
OrderIds == {None, Some(<<>>), Some(<<"X1">>), Some(<<"X2", " ">>)}

\* no two cells hold the same non-empty id once trimmed
DistinctIds(ids) ==
    \A i, j \in 1..Len(ids) :
        (i # j /\ Strip(ids[i]) # <<>>) => Strip(ids[i]) # Strip(ids[j])

\* the worksheet before the object connects: empty, or data rows under a
\* header row, or data rows from row 1 on
InitialSheets ==
    LET rows == {x \in SeqsUpTo(SheetCells, 2) : DistinctIds(x)}
    IN  {[head |-> "none", ids |-> <<>>]}
        \cup {[head |-> "header", ids |-> ids] : ids \in rows}
        \cup {[head |-> "data", ids |-> ids] : ids \in rows \ {<<>>}}

\* the object and its worksheet as one record
Led == [head |-> sheet_head, ids |-> sheet_ids, open |-> sheet_open,
        cache |-> existing_order_ids]

SetLed(led) ==
    /\ sheet_head' = led.head
    /\ sheet_ids' = led.ids
    /\ sheet_open' = led.open
    /\ existing_order_ids' = led.cache

\* SheetsLedger(): lines 21-23
LedgerInit ==
    /\ \E sh \in InitialSheets : sheet_head = sh.head /\ sheet_ids = sh.ids
    /\ sheet_open = FALSE
    /\ existing_order_ids = {}
    /\ led_last = NoLedgerCall

\* ledger.connect()
LedConnect ==
    /\ \E f \in Faults :
         LET r == Connect(Led, f)
         IN  /\ SetLed(r.led)
             /\ led_last' = [op |-> "connect", order_ids |-> <<>>, ret |-> None,
                             exc |-> r.exc]
    /\ UNCHANGED <<parserVars, callVars, tradeVars, aggVars, mainVars>>

\* ledger.append_trade(trade)
LedAppend ==
    /\ Len(sheet_ids) < MaxSheetRows
    /\ \E order_id \in OrderIds, f \in Faults :
         LET r == AppendTrade(Led, order_id, f)
         IN  /\ SetLed(r.led)
             /\ led_last' = [op |-> "append_trade", order_ids |-> <<order_id>>,
                             ret |-> r.ret, exc |-> r.exc]
    /\ UNCHANGED <<parserVars, callVars, tradeVars, aggVars, mainVars>>

\* ledger.batch_append_trades(trades)
LedBatch ==
    /\ \E order_ids \in SeqsUpTo(OrderIds, MaxBatch), f \in Faults :
         /\ Len(sheet_ids) + Len(order_ids) <= MaxSheetRows
         /\ LET r == BatchAppendTrades(Led, order_ids, f)
            IN  /\ SetLed(r.led)
                /\ led_last' = [op |-> "batch_append_trades", order_ids |-> order_ids,
                                ret |-> r.ret, exc |-> r.exc]
    /\ UNCHANGED <<parserVars, callVars, tradeVars, aggVars, mainVars>>

LedgerNext == LedConnect \/ LedAppend \/ LedBatch

\* ------------------------------------------------------------------------
\* main() (src/main.py)
\* ------------------------------------------------------------------------

\* str.lower() on the values DRY_RUN takes in the model
LowerTok(c) ==
    CASE c \in {"True", "TRUE", "true"} -> "true"
      [] c \in {"False", "FALSE", "false"} -> "false"
      [] OTHER -> c

\* DryRun comparing the variable with "true" as it is written
DryRun_CaseSensitive(env) == (IF env = None THEN "True" ELSE env[1]) = "true"

\* line 39: os.getenv("DRY_RUN", "True").lower() == "true"
DryRun(env) == LowerTok(IF env = None THEN "True" ELSE env[1]) = "true"

\* DRY_RUN unset, or set to one of these
DryEnvs == {None, Some("True"), Some("TRUE"), Some("false"), Some("1")}

\* most messages fetch_new_emails yields in one run
MaxEmails == 2

\* a key-value mail with order id REF-1, one without a trade, a report of two
\* trades, a report listing one trade twice
MainMessages ==
    { Message(<<"Trade Confirmation">>, <<>>, KVFull),
      Message(<<"Trade Confirmation">>, <<>>, KVNone),
      Message(<<BrokerMarker, "2026Y1M19D">>, <<RowSell, RowBuy>>, KVNone),
      Message(<<BrokerMarker, "2026Y1M19D">>, <<RowSell, RowSell>>, KVNone) }

\* the worksheet before the run: empty, or holding the trade REF-1
MainSheets ==
    { [head |-> "none", ids |-> <<>>],
      [head |-> "header", ids |-> << <<"REF-1">> >>] }

\* lines 36-37 and the process environment
MainInit ==
    /\ dry_env \in DryEnvs
    /\ dry_run = TRUE
    /\ main_pc = "start"
    /\ inbox \in SeqsUpTo(MainMessages, MaxEmails)
    /\ pending = <<>>
    /\ emails_processed = 0
    /\ trades_recorded = 0
    /\ ledger_calls = <<>>
    /\ \E sh \in MainSheets :
         /\ sheet_head = sh.head
         /\ sheet_ids = sh.ids
         /\ rows_at_start = Len(sh.ids)
    /\ sheet_open = FALSE
    /\ existing_order_ids = {}
    /\ led_last = NoLedgerCall

\* lines 39-50: dry_run, then run_diagnostics (lines 12-30): the mailbox test
\* and, unless dry_run, ledger.connect(); either failing ends in sys.exit(1)
MainSetup ==
    /\ main_pc = "start"
    /\ dry_run' = DryRun(dry_env)
    /\ \E mail_ok \in BOOLEAN, f \in Faults :
         IF ~mail_ok
         THEN /\ main_pc' = "exit1"
              /\ UNCHANGED <<ledgerVars, ledger_calls>>
         ELSE IF DryRun(dry_env)
         THEN /\ main_pc' = "loop"
              /\ UNCHANGED <<ledgerVars, ledger_calls>>
         ELSE LET r == Connect(Led, f)
              IN  /\ SetLed(r.led)
                  /\ led_last' = [op |-> "connect", order_ids |-> <<>>, ret |-> None,
                                  exc |-> r.exc]
                  /\ ledger_calls' = Append(ledger_calls, "connect")
                  /\ main_pc' = IF r.exc = "" THEN "loop" ELSE "exit1"
    /\ UNCHANGED <<dry_env, inbox, pending, emails_processed, trades_recorded, rows_at_start>>
    /\ UNCHANGED <<parserVars, callVars, tradeVars, aggVars>>

\* lines 52-56 and 65-66: the next message is fetched and parsed
MainEmail ==
    /\ main_pc = "loop"
    /\ pending = <<>>
    /\ inbox # <<>>
    /\ emails_processed' = emails_processed + 1
    /\ LET r == ParseCall(build, now, Head(inbox).subject, Head(inbox).body)
       IN  IF r.exc = ""
           THEN pending' = r.ret /\ main_pc' = main_pc
           ELSE pending' = pending /\ main_pc' = "exit1"
    /\ inbox' = Tail(inbox)
    /\ UNCHANGED <<dry_env, dry_run, trades_recorded, ledger_calls, rows_at_start>>
    /\ UNCHANGED ledgerVars
    /\ UNCHANGED <<parserVars, callVars, tradeVars, aggVars>>

\* lines 57-64: one trade of the message; an exception of append_trade
\* reaches the handler of line 87 and ends in sys.exit(1)
MainTrade ==
    /\ main_pc = "loop"
    /\ pending # <<>>
    /\ pending' = Tail(pending)
    /\ IF dry_run
       THEN UNCHANGED <<main_pc, trades_recorded, ledger_calls, ledgerVars>>
       ELSE \E f \in Faults :
              LET r == AppendTrade(Led, Head(pending).order_id, f)
              IN  /\ SetLed(r.led)
                  /\ led_last' = [op |-> "append_trade",
                                  order_ids |-> <<Head(pending).order_id>>,
                                  ret |-> r.ret, exc |-> r.exc]
                  /\ ledger_calls' = Append(ledger_calls, "append_trade")
                  /\ IF r.exc = ""
                     THEN main_pc' = main_pc /\ trades_recorded' = trades_recorded + 1
                     ELSE main_pc' = "exit1" /\ trades_recorded' = trades_recorded
    /\ UNCHANGED <<dry_env, dry_run, inbox, emails_processed, rows_at_start>>
    /\ UNCHANGED <<parserVars, callVars, tradeVars, aggVars>>

\* lines 68-70, after the last message: update_portfolio_summary writes the
\* dashboard worksheet and leaves the ledger worksheet and the cache alone
MainSummary ==
    /\ main_pc = "loop"
    /\ pending = <<>>
    /\ inbox = <<>>
    /\ main_pc' = "report"
    /\ ledger_calls' = IF ~dry_run /\ trades_recorded >= 0
                       THEN Append(ledger_calls, "update_portfolio_summary")
                       ELSE ledger_calls
    /\ UNCHANGED <<dry_env, dry_run, inbox, pending, emails_processed, trades_recorded,
                   rows_at_start>>
    /\ UNCHANGED ledgerVars
    /\ UNCHANGED <<parserVars, callVars, tradeVars, aggVars>>

\* lines 72-82: the final report and sys.exit(0)
MainExit ==
    /\ main_pc = "report"
    /\ main_pc' = "exit0"
    /\ UNCHANGED <<dry_env, dry_run, inbox, pending, emails_processed, trades_recorded,
                   ledger_calls, rows_at_start>>
    /\ UNCHANGED ledgerVars
    /\ UNCHANGED <<parserVars, callVars, tradeVars, aggVars>>

MainNext == MainSetup \/ MainEmail \/ MainTrade \/ MainSummary \/ MainExit

\* ------------------------------------------------------------------------
\* Specifications: one per component, the other components at rest
\* ------------------------------------------------------------------------

ParserIdle ==
    /\ build = "pydantic" /\ now = Clock /\ subject = <<>>
    /\ body = [fault |-> "", rows |-> <<>>, kv |-> KVNone]
    /\ pc = "idle" /\ ran = {} /\ report_date = <<>> /\ row_i = 0
    /\ trades = <<>> /\ result = <<>> /\ escaped = ""

TradeIdle ==
    /\ tr_build = "pydantic"
    /\ tr_data \in {d \in TradeArgs : d.quantity = Zero /\ d.price = Zero /\ d.total_amount = None}
    /\ tr_pc = "idle" /\ tr_out = NoCall

AggIdle ==
    /\ headers = HeaderStd /\ hist = <<>> /\ portfolio = <<>>
    /\ total_realized_pl = Zero /\ summary_rows = <<>> /\ agg_pc = "idle"

CallsIdle == calls = 1 /\ returned = {}

LedgerIdle ==
    /\ sheet_head = "none" /\ sheet_ids = <<>> /\ sheet_open = FALSE
    /\ existing_order_ids = {} /\ led_last = NoLedgerCall

MainIdle ==
    /\ dry_env = <<>> /\ dry_run = TRUE /\ main_pc = "idle" /\ inbox = <<>>
    /\ pending = <<>>
    /\ emails_processed = 0 /\ trades_recorded = 0 /\ ledger_calls = <<>>
    /\ rows_at_start = 0

ParseStart == ParserInit /\ CallsIdle /\ TradeIdle /\ AggIdle /\ LedgerIdle /\ MainIdle
TradeStart == TradeInit /\ ParserIdle /\ CallsIdle /\ AggIdle /\ LedgerIdle /\ MainIdle
AggStart == AggInit /\ ParserIdle /\ CallsIdle /\ TradeIdle /\ LedgerIdle /\ MainIdle

\* TradeParser.parse on every message of the model
SpecParse == ParseStart /\ [][ParserNext]_vars

\* Trade(**data) on every argument set of the model
SpecTrade == TradeStart /\ [][TradeNext]_vars

\* update_portfolio_summary on every ledger sheet of the model
SpecAgg == AggStart /\ [][AggNext]_vars

RepeatStart ==
    RepeatInit /\ CallsIdle /\ TradeIdle /\ AggIdle /\ LedgerIdle /\ MainIdle

\* parse called up to MaxCalls times by one process
SpecRepeat == RepeatStart /\ [][RepeatNext]_vars

MainStart == MainInit /\ ParserIdle /\ CallsIdle /\ TradeIdle /\ AggIdle

\* one run of main() on every inbox, worksheet and DRY_RUN value of the model
SpecMain == MainStart /\ [][MainNext]_vars

LedgerStart ==
    LedgerInit /\ ParserIdle /\ CallsIdle /\ TradeIdle /\ AggIdle /\ MainIdle

\* connect, append_trade and batch_append_trades in every order on every
\* worksheet of the model
SpecLedger == LedgerStart /\ [][LedgerNext]_vars

\* update_portfolio_summary on the sheets under the header row that
\* _ensure_headers writes
AggStdStart == AggStart /\ headers = HeaderStd
SpecAggStd == AggStdStart /\ [][AggNext]_vars

\* ------------------------------------------------------------------------
\* Properties of the aggregation (SpecAgg)
\* ------------------------------------------------------------------------

\* what the fold read from each row of the history, as a sequence
RECURSIVE StepsOf(_, _)
StepsOf(hdr, h) ==
    IF h = <<>> THEN <<>>
    ELSE Append(StepsOf(hdr, SubSeq(h, 1, Len(h) - 1)), RowStep(hdr, h[Len(h)]))

\* the row was folded into symbol c as a purchase (side = "BUY") or as a sale
\* (side = "SELL")
RowIs(st, c, side) ==
    /\ st.kind = "fold"
    /\ st.code = c
    /\ IF side = "BUY" THEN IsBuy(st.action)
       ELSE ~IsBuy(st.action) /\ IsSell(st.action)

RECURSIVE SumOver(_, _, _, _, _)
\* the sum of field f ("qty" or "amt") over the first n rows that are `side`
\* rows of symbol c
SumOver(sts, n, c, side, f) ==
    IF n = 0 THEN Zero
    ELSE IF RowIs(sts[n], c, side)
    THEN RAdd(SumOver(sts, n - 1, c, side, f),
              IF f = "qty" THEN sts[n].qty ELSE sts[n].amt)
    ELSE SumOver(sts, n - 1, c, side, f)

\* cumulative bought amount / cumulative bought quantity over the first n
\* rows, 0 before any purchase
AvgBuyCost(sts, n, c) ==
    LET q == SumOver(sts, n, c, "BUY", "qty")
    IN  IF RGt(q, Zero) THEN RDiv(SumOver(sts, n, c, "BUY", "amt"), q) ELSE Zero

RECURSIVE RealizedOver(_, _, _)
\* the sum over the SELL rows of c among the first n rows of (unit price -
\* average buy cost at the time of the sale) x quantity
RealizedOver(sts, n, c) ==
    IF n = 0 THEN Zero
    ELSE IF RowIs(sts[n], c, "SELL")
    THEN LET unit == IF sts[n].qty = Zero THEN Zero ELSE RDiv(sts[n].amt, sts[n].qty)
         IN  RAdd(RealizedOver(sts, n - 1, c),
                  RMul(RSub(unit, AvgBuyCost(sts, n - 1, c)), sts[n].qty))
    ELSE RealizedOver(sts, n - 1, c)

Buy100At10 == AggField(<<"A">>, <<"Alpha">>, <<"BUY">>, <<"1", "0", "0">>, <<"1", ",", "0", "0", "0">>)
Sell40At15 == AggField(<<"A">>, <<>>, <<"cash", SellGlyph>>, <<"4", "0">>, <<"6", "0", "0">>)

ExampleHist ==
    <<RowOf(headers, Buy100At10, RowWidth(headers)),
      RowOf(headers, Sell40At15, RowWidth(headers))>>

\* C1: at every point of the fold, each symbol's realized P/L is the sum over
\* its SELL rows of (sale unit price - average buy cost at the time of the
\* sale) x sale quantity, and its net quantity is bought minus sold; BUY
\* 100@10 then SELL 40@15 gives average cost 10, realized P/L 200, net 60.
C1_RealizedAndNet ==
    /\ LET sts == StepsOf(headers, hist)
           n == Len(hist)
       IN  \A c \in DOMAIN portfolio :
             /\ portfolio[c].realized_pl = RealizedOver(sts, n, c)
             /\ RSub(portfolio[c].buy_qty, portfolio[c].sell_qty)
                  = RSub(SumOver(sts, n, c, "BUY", "qty"),
                         SumOver(sts, n, c, "SELL", "qty"))
    /\ (hist = ExampleHist) =>
         /\ portfolio[<<"A">>].realized_pl = Rat(200, 1)
         /\ RSub(portfolio[<<"A">>].buy_qty, portfolio[<<"A">>].sell_qty) = Rat(60, 1)
         /\ RDiv(portfolio[<<"A">>].buy_amt, portfolio[<<"A">>].buy_qty) = Rat(10, 1)
    /\ (agg_pc = "done" /\ hist = ExampleHist) =>
         /\ Len(summary_rows) = 1
         /\ summary_rows[1].net_qty = Rat(60, 1)
         /\ summary_rows[1].avg_buy = Rat(10, 1)
         /\ summary_rows[1].realized_pl = Rat(200, 1)

\* C1 witness: the example has been folded and summarised
C1_Witness ==
    /\ agg_pc = "done"
    /\ hist = ExampleHist
    /\ portfolio[<<"A">>].realized_pl = Rat(200, 1)

\* C2 (as claimed): a symbol is on the dashboard if and only if its net
\* quantity is non-zero or its realized P/L is non-zero.
C2_ShownIffNonZero ==
    agg_pc = "done" =>
        \A c \in DOMAIN portfolio :
            (\E i \in 1..Len(summary_rows) : summary_rows[i].code = c)
            <=> \/ RSub(portfolio[c].buy_qty, portfolio[c].sell_qty) # Zero
                \/ portfolio[c].realized_pl # Zero

\* ------------------------------------------------------------------------
\* Properties of the tabular extractor (SpecParse)
\* ------------------------------------------------------------------------

\* the spec's strict numeric pattern: digits, then optionally a decimal point
\* and further digits
StrictNumeric(s) ==
    \E k \in 1..Len(s) :
        /\ \A i \in 1..k : IsDigit(s[i])
        /\ \/ k = Len(s)
           \/ /\ s[k + 1] = "."
              /\ \A i \in (k + 2)..Len(s) : IsDigit(s[i])

\* the row is a data row: 7 cells or more, no header or notice marker in the
\* first cell, quantity and price numeric once the thousands separators are
\* dropped
DataRow(row) ==
    /\ Len(row) >= 7
    /\ ~\E i \in 1..Len(row[1]) : row[1][i] \in RowMarkers
    /\ StrictNumeric(Remove(Strip(row[3]), ","))
    /\ StrictNumeric(Remove(Strip(row[4]), ","))

\* parsing the data row fails: its time does not combine with the report
\* date, or the record is rejected at construction
RowFails(row) ==
    \/ ~Strptime(report_date, Strip(row[7])).ok
    \/ /\ build = "pydantic"
       /\ \/ ~RGt(ParseFloat(Remove(row[3], ",")).v, Zero)
          \/ ~RGt(ParseFloat(Remove(row[4], ",")).v, Zero)

ValidRow(row) == DataRow(row) /\ ~RowFails(row)

\* the tabular extractor ran to its end on a subject with a date and a body
\* whose table could be read
ReportRead ==
    /\ pc = "done"
    /\ "fubon" \in ran
    /\ \E i \in 1..Len(subject) : IsDateExpr(subject[i])
    /\ body.fault = ""

\* C3: a report with N valid rows interleaved with invalid rows yields exactly
\* N records, one per valid row (its order id, quantity and price), in the
\* order of the valid rows.
C3_ExactlyValidRows ==
    ReportRead =>
        LET valid == SelectSeq(body.rows, ValidRow)
        IN  /\ Len(result) = Len(valid)
            /\ \A i \in 1..Len(valid) :
                 /\ result[i].order_id = Some(Strip(valid[i][6]))
                 /\ result[i].quantity = ParseFloat(Remove(valid[i][3], ",")).v
                 /\ result[i].price = ParseFloat(Remove(valid[i][4], ",")).v

\* C3 witness: two valid rows around invalid ones, returned in table order
C3_Witness ==
    /\ ReportRead
    /\ body.rows = <<RowBuy, RowNotice, RowSell>>
    /\ Len(result) = 2
    /\ result[1].order_id = Some(<<"DEF456">>)
    /\ result[2].order_id = Some(<<"ABC123">>)

\* C6: a data row whose parsing fails is skipped and the loop goes on to the
\* next row with the list built so far untouched; a valid row adds one record;
\* no row ends the report.
C6_RowFailureSkipsRow ==
    [][(pc = "fubon_rows" /\ row_i <= Len(body.rows)) =>
          /\ pc' = "fubon_rows"
          /\ row_i' = row_i + 1
          /\ (DataRow(body.rows[row_i]) /\ RowFails(body.rows[row_i]))
                => trades' = trades
          /\ ValidRow(body.rows[row_i])
                => /\ Len(trades') = Len(trades) + 1
                   /\ SubSeq(trades', 1, Len(trades)) = trades]_vars

\* C6 witness: a failing row between two valid rows, both of them returned
C6_Witness ==
    /\ pc = "done"
    /\ body.rows = <<RowSell, RowBadTime, RowBuy>>
    /\ Len(result) = 2
    /\ result[1].order_id = Some(<<"ABC123">>)
    /\ result[2].order_id = Some(<<"DEF456">>)

\* C7: with the broker marker but no date expression in the subject the
\* tabular extractor returns [] whatever the body holds, and reads no row.
C7_NoDateNoRecords ==
    (/\ "fubon" \in ran
     /\ pc # "fubon_date"
     /\ ~\E i \in 1..Len(subject) : IsDateExpr(subject[i]))
        => /\ pc = "done"
           /\ result = <<>>
           /\ trades = <<>>
           /\ row_i = 0

\* C7 witness: a dateless report whose table holds a valid row
C7_Witness ==
    /\ pc = "done"
    /\ "fubon" \in ran
    /\ ~\E i \in 1..Len(subject) : IsDateExpr(subject[i])
    /\ Len(body.rows) >= 1
    /\ body.rows[1] = RowSell
    /\ result = <<>>

\* ------------------------------------------------------------------------
\* Properties of the regex extractor and of parse (SpecParse)
\* ------------------------------------------------------------------------

\* the regex extractor has been run on the body
RegexRan == "regex" \in ran /\ pc # "regex"

\* all four required fields were found in the text
AllFound == body.fault # "NoneBody" /\ \A k \in RequiredKeys : body.kv[k] # None

\* float() accepts the text: digits with at most one decimal point
Numeric(s) ==
    /\ \A i \in 1..Len(s) : IsDigit(s[i]) \/ s[i] = "."
    /\ \E i \in 1..Len(s) : IsDigit(s[i])
    /\ \A i, j \in 1..Len(s) : (s[i] = "." /\ s[j] = ".") => i = j

\* both numeric fields parse once the thousands separators are dropped
BothParse ==
    /\ Numeric(Remove(Strip(body.kv["quantity"][1]), ","))
    /\ Numeric(Remove(Strip(body.kv["price"][1]), ","))

\* every digit of the text is a zero: the number it writes is 0
WritesZero(s) == \A i \in 1..Len(s) : IsDigit(s[i]) => s[i] = "0"

BothPositive ==
    /\ ~WritesZero(body.kv["quantity"][1])
    /\ ~WritesZero(body.kv["price"][1])

\* C4 (as claimed): the regex extractor returns exactly one record when the
\* four fields are found and both numbers parse, and no record otherwise.
C4_OneRecordIffFoundAndParsed ==
    RegexRan =>
        /\ pc = "done"
        /\ Len(result) <= 1
        /\ (Len(result) = 1) <=> (AllFound /\ BothParse)

\* C4 (amended): exactly one record when the four fields are found and both
\* numbers parse to values > 0; no record when a field is missing or a number
\* does not parse; never more than one record, and a record only from a text
\* with all four fields and two parsed numbers.
C4_OneRecordIfPositive ==
    RegexRan =>
        /\ pc = "done"
        /\ Len(result) <= 1
        /\ (AllFound /\ BothParse /\ BothPositive) => Len(result) = 1
        /\ ~(AllFound /\ BothParse) => result = <<>>

\* C4 witness: the one record of a text with all four fields, its numbers
\* parsed and its side upper-cased
C4_Witness ==
    /\ RegexRan
    /\ body.kv = KVFull
    /\ Len(result) = 1
    /\ result[1].quantity = Rat(1000, 1)
    /\ result[1].price = Rat(21, 2)
    /\ result[1].side = "BUY"

\* C5: no exception leaves parse: every call that has ended has returned a
\* list, whatever failed on the way.
C5_NeverRaises ==
    /\ escaped = ""
    /\ pc \in {"start", "regex", "fubon_date", "fubon_soup", "fubon_rows", "done"}

\* C5 witness: a body that makes the table parse fail, answered with []
C5_Witness ==
    /\ pc = "done"
    /\ "fubon" \in ran
    /\ body.fault = "NoneBody"
    /\ result = <<>>

\* C8: once parse has dispatched, exactly one extractor has been entered: the
\* tabular one if the subject holds the broker marker, the regex one if not;
\* this stays so to the end of the call, whatever the body and the result.
C8_OneStrategyBySubject ==
    pc # "start" =>
        ran = {IF \E i \in 1..Len(subject) : subject[i] = BrokerMarker
               THEN "fubon" ELSE "regex"}

\* C8 witness: the tabular extractor returned nothing for a body the regex
\* extractor would have read, and the regex extractor was not run
C8_Witness ==
    /\ pc = "done"
    /\ ran = {"fubon"}
    /\ body.kv = KVFull
    /\ result = <<>>

\* C9 (as claimed): every record parse returns has quantity > 0 and price > 0.
C9_PositiveQuantityAndPrice ==
    pc = "done" =>
        \A i \in 1..Len(result) :
            RGt(result[i].quantity, Zero) /\ RGt(result[i].price, Zero)

\* ------------------------------------------------------------------------
\* Properties of Trade (SpecTrade)
\* ------------------------------------------------------------------------

\* C10: a Trade built without total_amount from a positive quantity and price
\* has total_amount a whole number of hundredths within half a hundredth of
\* quantity x price; a total_amount that was supplied is kept as given.
C10_TotalAmount ==
    (tr_pc = "done" /\ tr_out.ok) =>
        LET t == tr_out.trade[1]
            exact == RMul(tr_data.quantity, tr_data.price)
            diff == RSub(t.total_amount, exact)
        IN  IF tr_data.total_amount = None
            THEN (RGt(tr_data.quantity, Zero) /\ RGt(tr_data.price, Zero)) =>
                    /\ 100 % t.total_amount.d = 0
                    /\ 200 * Abs(diff.n) <= diff.d
            ELSE t.total_amount = tr_data.total_amount[1]

\* C10 witness: a product that is not a whole number of hundredths, rounded
C10_Witness ==
    /\ tr_pc = "done"
    /\ tr_out.ok
    /\ tr_data.total_amount = None
    /\ tr_data.quantity = Rat(3, 2)
    /\ tr_data.price = Rat(9, 1000)
    /\ tr_out.trade[1].total_amount = Rat(1, 100)

\* ------------------------------------------------------------------------
\* Order of the rows (SpecAggStd)
\* ------------------------------------------------------------------------

\* the orderings of n rows, as permutations of 1..n
Orderings ==
    [n \in 0..MaxAggRows |->
        {p \in [1..n -> 1..n] : \A i, j \in 1..n : i # j => p[i] # p[j]}]

RECURSIVE FoldSteps(_, _, _)
\* the portfolio after the rows read as sts, taken in the order p, up to the
\* k-th
FoldSteps(sts, p, k) ==
    IF k = 0 THEN <<>>
    ELSE LET pf == FoldSteps(sts, p, k - 1)
             st == sts[p[k]]
         IN  IF st.kind = "fold" THEN FoldRow(pf, st) ELSE pf

NetQty(d) == RSub(d.buy_qty, d.sell_qty)
AvgBuy(d) == IF RGt(d.buy_qty, Zero) THEN RDiv(d.buy_amt, d.buy_qty) ELSE Zero

\* SELL 40@15 before BUY 100@10: the two rows of the example, sale first
SellFirstHist ==
    <<RowOf(headers, Sell40At15, RowWidth(headers)),
      RowOf(headers, Buy100At10, RowWidth(headers))>>

\* C11: every reordering of the rows folded so far gives each symbol the same
\* net quantity and the same final average buy cost as the order processed,
\* while the realized P/L depends on the order: SELL 40@15 then BUY 100@10
\* realizes 600 (no purchase precedes the sale, so its cost is 0), the same
\* two rows with the purchase first realize 200.
C11_OrderSensitive ==
    /\ LET sts == StepsOf(headers, hist)
           n == Len(hist)
       IN  \A p \in Orderings[n] :
             LET pf == FoldSteps(sts, p, n)
             IN  /\ DOMAIN pf = DOMAIN portfolio
                 /\ \A c \in DOMAIN portfolio :
                      /\ NetQty(pf[c]) = NetQty(portfolio[c])
                      /\ AvgBuy(pf[c]) = AvgBuy(portfolio[c])
    /\ (hist = SellFirstHist) =>
         LET sts == StepsOf(headers, hist)
             swapped == FoldSteps(sts, <<2, 1>>, 2)
         IN  /\ portfolio[<<"A">>].realized_pl = Rat(600, 1)
             /\ swapped[<<"A">>].realized_pl = Rat(200, 1)
             /\ NetQty(portfolio[<<"A">>]) = Rat(60, 1)
             /\ AvgBuy(portfolio[<<"A">>]) = Rat(10, 1)

\* C11 witness: the sale was folded before the purchase and realized 600
C11_Witness ==
    /\ hist = SellFirstHist
    /\ portfolio[<<"A">>].realized_pl = Rat(600, 1)
    /\ portfolio[<<"A">>].realized_pl
         # FoldSteps(StepsOf(headers, hist), <<2, 1>>, 2)[<<"A">>].realized_pl

\* ------------------------------------------------------------------------
\* Malformed persisted rows (SpecAgg)
\* ------------------------------------------------------------------------

\* the row is too short for one of the resolved columns, the name column
\* included, or its quantity or amount is not a number
Malformed(hdr, row) ==
    \/ \E idx \in {IdxCode(hdr), IdxName(hdr), IdxAction(hdr), IdxQty(hdr), IdxAmt(hdr)} :
         Len(row) <= idx
    \/ ~Numeric(Strip(Remove(Cell(row, IdxQty(hdr)), ",")))
    \/ ~Numeric(Strip(Remove(Cell(row, IdxAmt(hdr)), ",")))

RECURSIVE FoldWellFormed(_, _)
\* the portfolio folded from the rows of h that are not malformed
FoldWellFormed(hdr, h) ==
    IF h = <<>> THEN <<>>
    ELSE LET pf == FoldWellFormed(hdr, SubSeq(h, 1, Len(h) - 1))
             row == h[Len(h)]
         IN  IF Malformed(hdr, row) THEN pf ELSE FoldRow(pf, RowStep(hdr, row))

\* C12 (as claimed): under every header row, a malformed row is skipped
\* without effect: no row aborts the aggregation run, and the aggregate state
\* is at every point the fold of the well-formed rows alone.
C12_MalformedRowSkipped ==
    /\ agg_pc # "failed"
    /\ portfolio = FoldWellFormed(headers, hist)

\* ------------------------------------------------------------------------
\* Totals (SpecAgg)
\* ------------------------------------------------------------------------

RECURSIVE SumRealized(_, _)
\* the sum of the realized P/L of the symbols S of portfolio pf
SumRealized(pf, S) ==
    IF S = {} THEN Zero
    ELSE LET c == CHOOSE x \in S : TRUE
         IN  RAdd(pf[c].realized_pl, SumRealized(pf, S \ {c}))

RECURSIVE SumRows(_)
\* the sum of the realized P/L column of the dashboard rows
SumRows(rows) ==
    IF rows = <<>> THEN Zero
    ELSE RAdd(Head(rows).realized_pl, SumRows(Tail(rows)))

\* C13: at every point of the fold total_realized_pl is the sum of the
\* realized P/L of the symbols seen so far; once the dashboard rows are
\* emitted, their realized P/L column sums to the same total, and every symbol
\* with a non-zero realized P/L has a row.
C13_TotalIsSum ==
    /\ total_realized_pl = SumRealized(portfolio, DOMAIN portfolio)
    /\ agg_pc = "done" =>
         /\ SumRows(summary_rows) = total_realized_pl
         /\ \A c \in DOMAIN portfolio :
              portfolio[c].realized_pl # Zero =>
                \E i \in 1..Len(summary_rows) :
                    /\ summary_rows[i].code = c
                    /\ summary_rows[i].realized_pl = portfolio[c].realized_pl

\* C13 witness: BUY 100@10, SELL 40@15, SELL 60@15 were folded and
\* summarised: the position is closed and its realized 500 is the total
C13_Witness ==
    /\ agg_pc = "done"
    /\ total_realized_pl = Rat(500, 1)
    /\ Len(summary_rows) = 1
    /\ summary_rows[1].net_qty = Zero
    /\ summary_rows[1].realized_pl = Rat(500, 1)

\* ------------------------------------------------------------------------
\* Order ID deduplication (SpecLedger)
\* ------------------------------------------------------------------------

\* two data rows of the worksheet hold the same non-empty order id, compared
\* after trimming
RepeatedOrderId ==
    \E i, j \in 1..Len(sheet_ids) :
        /\ i < j
        /\ Strip(sheet_ids[i]) # <<>>
        /\ Strip(sheet_ids[i]) = Strip(sheet_ids[j])

\* the last call was append_trade of a trade without an order id and it
\* returned
AppendedNoId ==
    /\ led_last.op = "append_trade"
    /\ led_last.exc = ""
    /\ led_last.order_ids[1] \in {None, Some(<<>>)}

\* C14 (as claimed): after connect and any sequence of append_trade and
\* batch_append_trades calls on a worksheet that held no repeated order id,
\* no two rows hold the same non-empty order id, and a trade without an order
\* id is always appended.
C14_NoDuplicateOrderIds ==
    /\ ~RepeatedOrderId
    /\ AppendedNoId =>
         /\ led_last.ret = Some(TRUE)
         /\ sheet_ids # <<>>
         /\ sheet_ids[Len(sheet_ids)] = <<>>

\* ------------------------------------------------------------------------
\* Repeated calls of parse (SpecRepeat)
\* ------------------------------------------------------------------------

\* the earlier calls made on the message of the call that has just returned
EarlierOnSameMessage ==
    {e \in returned : e.subject = subject /\ e.body = body}

\* the record with its date blanked
Undated(trade) == [trade EXCEPT !.date = <<>>]

\* the two lists hold the same records when the dates are left out
SameButDates(a, b) ==
    /\ Len(a) = Len(b)
    /\ \A i \in 1..Len(a) : Undated(a[i]) = Undated(b[i])

\* C15 (as claimed): two calls of parse on the same message, at any two times
\* and with any other calls between them, return lists of records equal in
\* every field, the date included.
C15_SameMessageSameRecords ==
    pc = "done" => \A e \in EarlierOnSameMessage : e.result = result

\* C15 (amended): two calls of parse on the same message, at any two times and
\* with any other calls between them, return lists of the same length whose
\* records are equal in every field other than the date; the dates are equal
\* too for a report, whose record dates come from the subject and the row, and
\* for a key-value mail whenever the clock read the same at both calls.
C15_SameMessageSameButDates ==
    pc = "done" =>
        \A e \in EarlierOnSameMessage :
            /\ SameButDates(e.result, result)
            /\ Detect(subject) => e.result = result
            /\ \A i \in 1..Len(result) :
                 e.result[i].date # result[i].date =>
                    /\ ~Detect(subject)
                    /\ result[i].date = now

\* C15 witness: the key-value mail was parsed a second time, at a later
\* reading of the clock, and the record differs from the first one in its date
\* alone
C15_Witness ==
    /\ pc = "done"
    /\ calls >= 2
    /\ ~Detect(subject)
    /\ result # <<>>
    /\ \E e \in EarlierOnSameMessage :
         /\ e.result # <<>>
         /\ e.result[1].date = Clock
         /\ result[1].date = ClockLater
         /\ Undated(e.result[1]) = Undated(result[1])

\* ------------------------------------------------------------------------
\* The cache of order ids (SpecLedger)
\* ------------------------------------------------------------------------

\* the order id is held, trimmed, by a data row of the worksheet
InSheet(id) == \E i \in 1..Len(sheet_ids) : Strip(sheet_ids[i]) = id

\* C16 (as claimed): after any sequence of append_trade and
\* batch_append_trades calls, those whose worksheet write raises included,
\* every order id in existing_order_ids is the id of a row of the worksheet.
C16_CacheWithinSheet ==
    \A id \in existing_order_ids : InSheet(id)

\* ------------------------------------------------------------------------
\* The run of main (SpecMain)
\* ------------------------------------------------------------------------

\* the data rows appended to the ledger worksheet since main started
RowsAppended == Len(sheet_ids) - rows_at_start

\* C17 (as claimed): when a run of main that is not a dry run has made its
\* final report, trades_recorded is the number of rows the run appended to
\* the ledger worksheet.
C17_RecordedIsAppended ==
    (main_pc = "exit0" /\ ~dry_run) => trades_recorded = RowsAppended

RECURSIVE CallsOf(_, _)
\* how many times method m is in the log of ledger calls
CallsOf(log, m) ==
    IF log = <<>> THEN 0
    ELSE (IF Head(log) = m THEN 1 ELSE 0) + CallsOf(Tail(log), m)

\* every message has been fetched and every trade of it handled
AllEmailsProcessed == inbox = <<>> /\ pending = <<>>

\* C18: a dry run, which is what an unset DRY_RUN gives, calls no method of
\* the ledger and leaves worksheet and cache as they were; a run that is not
\* a dry run calls update_portfolio_summary at most once, only as its last
\* ledger call and only after every message has been processed, and a run
\* that gets to its final report has called it exactly once, whatever
\* trades_recorded is.
C18_DryRunTouchesNothing ==
    /\ (main_pc # "start" /\ dry_env = None) => dry_run
    /\ dry_run =>
         /\ ledger_calls = <<>>
         /\ led_last = NoLedgerCall
         /\ ~sheet_open
         /\ existing_order_ids = {}
         /\ RowsAppended = 0
    /\ ~dry_run =>
         LET n == CallsOf(ledger_calls, "update_portfolio_summary")
         IN  /\ n <= 1
             /\ n = 1 =>
                  /\ ledger_calls[Len(ledger_calls)] = "update_portfolio_summary"
                  /\ AllEmailsProcessed
                  /\ main_pc \in {"report", "exit0"}
             /\ main_pc \in {"report", "exit0"} => n = 1

\* C18 witness: a run with DRY_RUN=false fetched a message, recorded no
\* trade, and ended after connect and one update_portfolio_summary
C18_Witness ==
    /\ main_pc = "exit0"
    /\ ~dry_run
    /\ emails_processed > 0
    /\ trades_recorded = 0
    /\ ledger_calls = <<"connect", "update_portfolio_summary">>


====
